---------------------------- MODULE Spec2Model ----------------------------
(***************************************************************************)
(* Model of src/index.js: the /api/data (resolve) handler, the in-memory   *)
(* mediaStore registry with its one-hour expiry timers, and the            *)
(* /api/media/stream/:id (stream) handler.                                 *)
(*                                                                         *)
(* JavaScript runs each callback to completion, so one action is one       *)
(* callback: the part of a handler up to its await, the part after it, a   *)
(* stream event listener, or a timer callback.                             *)
(*                                                                         *)
(* Strings are sequences.  A URL is a sequence of tokens (its text is the  *)
(* concatenation of the tokens, and no token straddles a needle the code   *)
(* searches for); a title or filename is a sequence of characters.         *)
(***************************************************************************)
EXTENDS Integers, Sequences, FiniteSets, TLC

(***************************************************************************)
(* Bounds of the model.                                                    *)
(***************************************************************************)
\* requests (resolve and stream together) the clients issue in one run
MaxRequests == 3
\* longest data list the extraction adapter returns
MaxItems == 2
\* registry inserts (calls of uuidv4) in one run
MaxUuids == 2
\* clock ticks in one expiry window
TicksPerWindow == 2
\* longest title the sanitizer gets character by character
MaxShortTitle == 3
\* tokens of an item URL the classifier gets
MaxUrlTokens == 2
\* words of a quality hint the classifier gets
MaxHintWords == 1

(***************************************************************************)
(* Program constants.                                                      *)
(***************************************************************************)
\* setTimeout(..., 3600 * 1000)
ExpirySeconds == 3600
\* postTitle.substring(0, 50)
MaxTitleLen == 50

\* The clock counts seconds and advances a tick at a time, for one expiry
\* window and a tick more.
TickSeconds == ExpirySeconds \div TicksPerWindow
MaxSeconds == ExpirySeconds + TickSeconds

(***************************************************************************)
(* JavaScript string helpers.                                              *)
(***************************************************************************)
\* String.prototype.includes
Includes(s, needle) ==
  \E i \in 1..(Len(s) - Len(needle) + 1) :
     SubSeq(s, i, i + Len(needle) - 1) = needle

\* Array.prototype.join(",") as used by String(array)
RECURSIVE JoinComma(_)
JoinComma(elems) ==
  IF elems = <<>> THEN <<>>
  ELSE IF Len(elems) = 1 THEN elems[1]
  ELSE elems[1] \o <<",">> \o JoinComma(Tail(elems))

(***************************************************************************)
(* req.query.url as Express parses it: absent, a string, an array          *)
(* (?url=a&url=b) or an object (?url[k]=v).                                *)
(***************************************************************************)
QUndef == [kind |-> "undefined", s |-> <<>>, elems |-> <<>>]
QStr(s) == [kind |-> "string", s |-> s, elems |-> <<>>]
QArr(elems) == [kind |-> "array", s |-> <<>>, elems |-> elems]
QObj == [kind |-> "object", s |-> <<>>, elems |-> <<>>]

\* JavaScript truthiness of the query value (!url)
Truthy(q) ==
  CASE q.kind = "undefined" -> FALSE
    [] q.kind = "string" -> q.s # <<>>
    [] OTHER -> TRUE

\* String(url), the conversion new URL(url) applies to its argument
ToStr(q) ==
  CASE q.kind = "string" -> q.s
    [] q.kind = "array" -> JoinComma(q.elems)
    [] q.kind = "object" -> <<"[object Object]">>
    [] OTHER -> <<"undefined">>

HostTokens == {"www.", "instagram.com", "evil.com", "fake", ","}

\* the text after the scheme with the slashes a special scheme ignores dropped
RECURSIVE DropSlashes(_)
DropSlashes(s) ==
  IF s # <<>> /\ s[1] = "/" THEN DropSlashes(Tail(s)) ELSE s

\* the host: the text up to the first "/" of the path
RECURSIVE TakeHost(_)
TakeHost(s) ==
  IF s = <<>> \/ s[1] = "/" THEN <<>> ELSE <<s[1]>> \o TakeHost(Tail(s))

HostOf(s) == TakeHost(DropSlashes(Tail(s)))

\* new URL(s) does not throw: a scheme, then a non-empty valid host
URLParses(s) ==
  /\ s # <<>>
  /\ s[1] = "https://"
  /\ HostOf(s) # <<>>
  /\ \A i \in 1..Len(HostOf(s)) : HostOf(s)[i] \in HostTokens

\* url.includes('instagram.com/'): a substring test on a string, an element
\* test on an array
IncludesInstagram(q) ==
  CASE q.kind = "string" -> Includes(q.s, <<"instagram.com", "/">>)
    [] q.kind = "array" ->
         \E i \in 1..Len(q.elems) : q.elems[i] = <<"instagram.com", "/">>
    [] OTHER -> FALSE

\* the query values the clients send
UrlInputs ==
  { QUndef,
    QStr(<<>>),
    QStr(<<"instagram.com", "/", "p">>),
    QStr(<<"https://", "instagram.com", "/", "p">>),
    QStr(<<"https://", "www.", "instagram.com", "/", "p">>),
    QStr(<<"https://", "instagram.com">>),
    QStr(<<"https://", "evil.com", "/", "p">>),
    QStr(<<"https://", "evil.com", "/", "instagram.com", "/">>),
    QArr(<< <<"https://", "www.", "instagram.com", "/", "p">> >>),
    QObj }

\* validation without the new URL(url) parse
ValidationStatus_NoParse(q) ==
  IF ~Truthy(q) THEN 400
  ELSE IF ~IncludesInstagram(q) THEN 400
  ELSE 0

\* the answer of the validation of lines 78-89: 0 when the request passes
ValidationStatus(q) ==
  IF ~Truthy(q) THEN 400
  ELSE IF ~URLParses(ToStr(q)) THEN 400
  ELSE IF ~IncludesInstagram(q) THEN 400
  ELSE 0

ValidationError(q) ==
  IF ~Truthy(q) THEN <<"URL parameter is missing">>
  ELSE IF ~URLParses(ToStr(q)) THEN <<"Invalid URL format.">>
  ELSE IF ~IncludesInstagram(q) THEN <<"Invalid Instagram URL provided.">>
  ELSE <<>>

(***************************************************************************)
(* Optional string values of the adapter's result: undefined or a string.  *)
(***************************************************************************)
JUndef == [t |-> "undefined", v |-> <<>>]
JStr(s) == [t |-> "string", v |-> s]

\* JavaScript truthiness of an optional string
JTruthy(j) == j.t = "string" /\ j.v # <<>>

\* a || b on optional strings
JOr(a, b) == IF JTruthy(a) THEN a ELSE b

(***************************************************************************)
(* Characters of titles, with their character codes.                       *)
(***************************************************************************)
CharCode ==
  ("\t" :> 9) @@ (" " :> 32) @@ ("!" :> 33) @@ ("'" :> 39) @@ ("(" :> 40) @@
  (")" :> 41) @@ ("*" :> 42) @@ ("-" :> 45) @@ ("." :> 46) @@ ("/" :> 47) @@
  ("5" :> 53) @@ (":" :> 58) @@ ("I" :> 73) @@ ("M" :> 77) @@ ("T" :> 84) @@
  ("_" :> 95) @@ ("a" :> 97) @@ ("d" :> 100) @@ ("e" :> 101) @@
  ("g" :> 103) @@ ("i" :> 105) @@ ("m" :> 109) @@ ("n" :> 110) @@
  ("r" :> 114) @@ ("s" :> 115) @@ ("t" :> 116) @@ ("~" :> 126)

\* \w
IsWord(c) ==
  LET k == CharCode[c]
  IN  k \in 48..57 \/ k \in 65..90 \/ k \in 97..122 \/ k = 95

\* \s
IsSpace(c) == CharCode[c] \in {9, 10, 11, 12, 13, 32}

\* a character the class [^\w\s.-_] does not match: in that class ".-_" is
\* the range from "." to "_"
KeptBySanitizer(c) ==
  IsWord(c) \/ IsSpace(c) \/ CharCode[c] \in CharCode["."]..CharCode["_"]

RECURSIVE TrimLeft(_)
TrimLeft(s) ==
  IF s # <<>> /\ IsSpace(s[1]) THEN TrimLeft(Tail(s)) ELSE s

RECURSIVE TrimRight(_)
TrimRight(s) ==
  IF s # <<>> /\ IsSpace(s[Len(s)])
  THEN TrimRight(SubSeq(s, 1, Len(s) - 1))
  ELSE s

\* String.prototype.trim
Trim(s) == TrimRight(TrimLeft(s))

\* s.substring(0, n)
Substring0(s, n) == SubSeq(s, 1, IF Len(s) < n THEN Len(s) ELSE n)

\* s.replace(/[^\w\s.-_]/g, '')
RECURSIVE StripChars(_)
StripChars(s) ==
  IF s = <<>> THEN <<>>
  ELSE IF KeptBySanitizer(s[1]) THEN <<s[1]>> \o StripChars(Tail(s))
  ELSE StripChars(Tail(s))

\* s.replace(/\s+/g, '_')
RECURSIVE CollapseSpaces(_)
CollapseSpaces(s) ==
  IF s = <<>> THEN <<>>
  ELSE IF IsSpace(s[1]) THEN <<"_">> \o CollapseSpaces(TrimLeft(s))
  ELSE <<s[1]>> \o CollapseSpaces(Tail(s))

DefaultTitle ==
  <<"I", "n", "s", "t", "a", "g", "r", "a", "m", "_", "M", "e", "d", "i", "a">>

FallbackTitle == <<"m", "e", "d", "i", "a">>

\* postTitle of lines 102-105, from result.title
SanitizeTitle(title) ==
  LET trimmed == IF title.t = "string" THEN Trim(title.v) ELSE <<>>
      named == IF trimmed # <<>> THEN trimmed ELSE DefaultTitle
      clean == CollapseSpaces(StripChars(Substring0(named, MaxTitleLen)))
  IN  IF clean # <<>> THEN clean ELSE FallbackTitle

(***************************************************************************)
(* Media type inference of lines 117-136.  An item URL is a sequence of    *)
(* tokens, a quality string a sequence of words.                           *)
(***************************************************************************)
\* String.prototype.toLowerCase, word by word
LowerWord(w) ==
  CASE w = "Video" -> "video"
    [] w = "VIDEO" -> "video"
    [] w = "Photo" -> "photo"
    [] w = "Image" -> "image"
    [] w = "HD" -> "hd"
    [] w = ".MP4" -> ".mp4"
    [] w = ".MOV" -> ".mov"
    [] w = ".JPG" -> ".jpg"
    [] w = ".PNG" -> ".png"
    [] OTHER -> w

ToLower(s) == [i \in 1..Len(s) |-> LowerWord(s[i])]

VideoSuffixes == {".mp4", ".mov", ".avi", ".mkv"}
ImageSuffixes == {".jpg", ".jpeg", ".png", ".gif", ".webp"}

\* url.match(/\.(mp4|mov|avi|mkv)/i): the positions of the matches
SuffixMatches(url, suffixes) ==
  {i \in 1..Len(url) : LowerWord(url[i]) \in suffixes}

\* the capture group of the leftmost match, lower-cased, without the dot
ExtOf(w) ==
  CASE w = ".mp4" -> "mp4" [] w = ".mov" -> "mov" [] w = ".avi" -> "avi"
    [] w = ".mkv" -> "mkv" [] w = ".jpg" -> "jpg" [] w = ".jpeg" -> "jpeg"
    [] w = ".png" -> "png" [] w = ".gif" -> "gif" [] w = ".webp" -> "webp"
    [] OTHER -> "bin"

Min(S) == CHOOSE x \in S : \A y \in S : x <= y

FirstSuffix(url, suffixes) ==
  ExtOf(LowerWord(url[Min(SuffixMatches(url, suffixes))]))

\* item.quality || item.type || ''
QualityString(item) == JOr(item.quality, JOr(item.type, JStr(<<>>))).v

\* mediaType and extension of one item
Classify(url, quality) ==
  LET q == ToLower(quality)
  IN  IF Includes(url, <<".mp4">>) \/ Includes(q, <<"video">>)
      THEN [mediaType |-> "video", extension |-> "mp4"]
      ELSE IF \/ Includes(url, <<".jpg">>) \/ Includes(url, <<".jpeg">>)
              \/ Includes(q, <<"photo">>) \/ Includes(q, <<"image">>)
      THEN [mediaType |-> "image", extension |-> "jpg"]
      ELSE IF SuffixMatches(url, VideoSuffixes) # {}
      THEN [mediaType |-> "video",
            extension |-> FirstSuffix(url, VideoSuffixes)]
      ELSE IF SuffixMatches(url, ImageSuffixes) # {}
      THEN [mediaType |-> "image",
            extension |-> FirstSuffix(url, ImageSuffixes)]
      ELSE [mediaType |-> "unknown", extension |-> "bin"]

\* the subtype taken from the media type instead of the extension
ContentType_ByKind(mediaType, extension) ==
  IF mediaType = "video" THEN <<"video/", "mp4">> ELSE <<"image/", "jpeg">>

\* contentType of line 144
ContentType(mediaType, extension) ==
  IF mediaType = "video"
  THEN <<"video/", IF extension = "jpg" THEN "mp4" ELSE extension>>
  ELSE <<"image/", IF extension = "mp4" THEN "jpeg" ELSE extension>>

\* `VibeDownloader.me - ${postTitle}.${extension}`
Filename(postTitle, extension) ==
  <<"VibeDownloader.me", " ", "-", " ">> \o postTitle \o <<".", extension>>

\* the registry entry of lines 141-145
MakeEntry(item, postTitle) ==
  LET c == Classify(item.url.v, QualityString(item))
  IN  [actualUrl |-> item.url.v,
       filename |-> Filename(postTitle, c.extension),
       contentType |-> ContentType(c.mediaType, c.extension)]

\* the response item of lines 152-157
MakeResponseItem(item) ==
  LET c == Classify(item.url.v, QualityString(item))
  IN  [type |-> c.mediaType,
       quality |-> IF QualityString(item) # <<>> THEN QualityString(item)
                   ELSE <<"Standard">>,
       url |-> item.url.v,
       thumbnail |-> item.thumbnail]

(***************************************************************************)
(* The extraction adapter's answers (snapsaveDownloader, an external       *)
(* module): a thrown fault, no result, or a result object.                 *)
(***************************************************************************)
\* a null entry of result.data: reading item.url throws a TypeError
NullItem ==
  [null |-> TRUE, url |-> JUndef, quality |-> JUndef, type |-> JUndef,
   thumbnail |-> JUndef]

NoUrlItem ==
  [null |-> FALSE, url |-> JUndef, quality |-> JStr(<<"HD">>),
   type |-> JUndef, thumbnail |-> JUndef]

VideoItem ==
  [null |-> FALSE, url |-> JStr(<<"x/", "a", ".mp4">>), quality |-> JUndef,
   type |-> JUndef, thumbnail |-> JUndef]

ImageItem ==
  [null |-> FALSE, url |-> JStr(<<"x/", "b", ".jpg">>),
   quality |-> JStr(<<"HD">>), type |-> JUndef,
   thumbnail |-> JStr(<<"x/", "t", ".jpg">>)]

Items == {NullItem, NoUrlItem, VideoItem, ImageItem}

ItemLists == UNION {[1..n -> Items] : n \in 0..MaxItems}

NoData == [defined |-> FALSE, items |-> <<>>]
DataValues == {NoData} \cup {[defined |-> TRUE, items |-> l] : l \in ItemLists}

Msgs == {JUndef, JStr(<<>>), JStr(<<"no media">>)}
Titles == {JStr(<<" ", "T", "/", "a", "!">>)}

Result(status, msg, title, data) ==
  [throws |-> FALSE, thrown |-> "none", isNull |-> FALSE, status |-> status,
   msg |-> msg, username |-> JUndef, title |-> title, data |-> data]

\* the adapter's promise rejects with an Error object
AdapterThrows ==
  [throws |-> TRUE, thrown |-> "error", isNull |-> FALSE, status |-> FALSE,
   msg |-> JUndef, username |-> JUndef, title |-> JUndef, data |-> NoData]

\* the adapter's promise rejects with undefined or null (reject() without a
\* reason, throw null)
AdapterThrowsNullish ==
  [throws |-> TRUE, thrown |-> "nullish", isNull |-> FALSE, status |-> FALSE,
   msg |-> JUndef, username |-> JUndef, title |-> JUndef, data |-> NoData]

AdapterNull ==
  [throws |-> FALSE, thrown |-> "none", isNull |-> TRUE, status |-> FALSE,
   msg |-> JUndef, username |-> JUndef, title |-> JUndef, data |-> NoData]

AdapterOutcomes ==
  {AdapterThrows, AdapterThrowsNullish, AdapterNull}
  \cup {Result(FALSE, m, JUndef, d) :
          m \in Msgs, d \in {NoData, [defined |-> TRUE, items |-> <<VideoItem>>]}}
  \cup {Result(TRUE, JUndef, t, d) : t \in Titles, d \in DataValues}

(***************************************************************************)
(* The registry: mediaStore, a plain object keyed by media id.             *)
(***************************************************************************)
\* the n-th value uuidv4() returns in a run: version-4 UUIDs do not repeat
Uuid(n) == [uuid |-> n, key |-> ""]

\* a path segment that is no UUID
Key(k) == [uuid |-> 0, key |-> k]

\* names every plain object inherits from Object.prototype
ObjectPrototypeKeys == {"constructor", "toString", "__proto__"}

NoEntry == [actualUrl |-> <<>>, filename |-> <<>>, contentType |-> <<>>]

\* mediaStore[mediaId] = entry
Insert(store, id, entry) ==
  [x \in DOMAIN store \cup {id} |-> IF x = id THEN entry ELSE store[x]]

\* delete mediaStore[mediaId]
Remove(store, id) == [x \in DOMAIN store \ {id} |-> store[x]]

\* a lookup that ignores the id and returns some own entry
Lookup_AnyOwn(store, id) ==
  IF DOMAIN store # {}
  THEN [t |-> "entry", e |-> store[CHOOSE x \in DOMAIN store : TRUE]]
  ELSE [t |-> "undefined", e |-> NoEntry]

\* mediaStore[mediaId]: an own property, else an inherited one, else undefined
Lookup(store, id) ==
  IF id \in DOMAIN store THEN [t |-> "entry", e |-> store[id]]
  ELSE IF id.key \in ObjectPrototypeKeys THEN [t |-> "proto", e |-> NoEntry]
  ELSE [t |-> "undefined", e |-> NoEntry]

\* uuidv4() called once per request, before the loop
MediaId_Hoisted(n, k) == Uuid(n + 1)

\* const mediaId = uuidv4(), for the k-th item a request inserts when uuidv4
\* was called n times before the request
MediaId(n, k) == Uuid(n + k)

(***************************************************************************)
(* The item loop of lines 113-158, as far as it runs: the entries it       *)
(* inserts, the response items it pushes, and whether it threw.            *)
(***************************************************************************)
\* a loop that handles the first item only
ItemLoop_FirstOnly(items, postTitle) ==
  IF items = <<>> THEN [entries |-> <<>>, media |-> <<>>, threw |-> FALSE]
  ELSE IF items[1].null
  THEN [entries |-> <<>>, media |-> <<>>, threw |-> TRUE]
  ELSE IF ~JTruthy(items[1].url)
  THEN [entries |-> <<>>, media |-> <<>>, threw |-> FALSE]
  ELSE [entries |-> <<MakeEntry(items[1], postTitle)>>,
        media |-> <<MakeResponseItem(items[1])>>, threw |-> FALSE]

RECURSIVE ItemLoop(_, _)
ItemLoop(items, postTitle) ==
  IF items = <<>> THEN [entries |-> <<>>, media |-> <<>>, threw |-> FALSE]
  ELSE IF items[1].null
  THEN [entries |-> <<>>, media |-> <<>>, threw |-> TRUE]
  ELSE LET rest == ItemLoop(Tail(items), postTitle)
       IN  IF ~JTruthy(items[1].url) THEN rest
           ELSE [entries |-> <<MakeEntry(items[1], postTitle)>> \o rest.entries,
                 media |-> <<MakeResponseItem(items[1])>> \o rest.media,
                 threw |-> rest.threw]

GenericFailure == <<"Failed to process the URL or no media found.">>

\* the adapter's message dropped
ErrorMessage_Generic(o) == GenericFailure

\* result && result.msg ? result.msg : '...' (line 95)
ErrorMessage(o) ==
  IF ~o.isNull /\ JTruthy(o.msg) THEN o.msg.v ELSE GenericFailure

\* the check of the response list left out
NoUsableMedia_Never(media) == FALSE

\* responseMedia.length === 0 (line 160)
NoUsableMedia(media) == Len(media) = 0

\* The catch block of lines 172-175 for the thrown value: it reads err.stack
\* and err.message, which throws again when err is undefined or null; the
\* handler's promise then rejects and no response is sent (status 0).
CatchResolve(thrown) ==
  IF thrown = "nullish" THEN [status |-> 0, error |-> <<>>]
  ELSE [status |-> 500, error |-> <<"Internal Server Error">>]

\* the answer of lines 92-175 to the adapter's outcome
Answer(o) ==
  LET loop == ItemLoop(o.data.items, SanitizeTitle(o.title))
      none == [entries |-> <<>>, media |-> <<>>, threw |-> FALSE]
  IN  IF o.throws
      THEN [status |-> CatchResolve(o.thrown).status,
            error |-> CatchResolve(o.thrown).error, loop |-> none]
      ELSE IF o.isNull \/ ~o.status
      THEN [status |-> 404, error |-> ErrorMessage(o), loop |-> none]
      ELSE IF ~o.data.defined \/ Len(o.data.items) = 0
      THEN [status |-> 404,
            error |-> <<"No downloadable media links found by the provider.">>,
            loop |-> none]
      ELSE IF loop.threw
      THEN [status |-> CatchResolve("error").status,
            error |-> CatchResolve("error").error,
            loop |-> [loop EXCEPT !.media = <<>>]]
      ELSE IF NoUsableMedia(loop.media)
      THEN [status |-> 404,
            error |-> <<"Could not prepare any media for download from the provided links.">>,
            loop |-> loop]
      ELSE [status |-> 200, error |-> <<>>, loop |-> loop]

(***************************************************************************)
(* The stream handler's pure parts.                                        *)
(***************************************************************************)
\* encodeURIComponent(c) followed by the four replace calls of lines 188-191
EncodeChar(c) ==
  CASE c = " " -> "%20" [] c = "\t" -> "%09" [] c = "/" -> "%2F"
    [] c = ":" -> "%3A" [] c = "'" -> "%27" [] c = "(" -> "%28"
    [] c = ")" -> "%29" [] c = "*" -> "%2A"
    [] OTHER -> c

\* safeFilename; encodeURIComponent(undefined) is "undefined"
SafeFilename(info) ==
  IF info.t = "entry"
  THEN [i \in 1..Len(info.e.filename) |-> EncodeChar(info.e.filename[i])]
  ELSE <<"undefined">>

\* axiosConfig.validateStatus
ValidateStatus(status) == status >= 200 /\ status < 400

\* final statuses an origin server answers with
UpstreamStatuses == {200, 206, 304, 400, 403, 404, 429, 500, 503}

\* error codes of a fetch that got no response
NetworkErrorCodes == {"ECONNABORTED", "ETIMEDOUT", "ECONNREFUSED", "ENOTFOUND"}

\* the errors axios rejects with, and the TypeError of a failed setup
NetworkError(code) == [code |-> code, response |-> 0, request |-> TRUE]
StatusError(status) ==
  [code |-> IF status >= 500 THEN "ERR_BAD_RESPONSE" ELSE "ERR_BAD_REQUEST",
   response |-> status, request |-> TRUE]
SetupError == [code |-> "", response |-> 0, request |-> FALSE]
NoError == [code |-> "none", response |-> 0, request |-> FALSE]

\* the catch block without its branch for upstream 5xx
CatchStatus_No5xxBranch(err) ==
  IF err.code = "ECONNABORTED" \/ err.code = "ETIMEDOUT" THEN 504
  ELSE IF err.response # 0
  THEN IF err.response = 403 THEN 403
       ELSE IF err.response = 404 THEN 404
       ELSE err.response
  ELSE IF err.request THEN 504
  ELSE 500

\* the status the catch block of lines 262-289 answers with
CatchStatus(err) ==
  IF err.code = "ECONNABORTED" \/ err.code = "ETIMEDOUT" THEN 504
  ELSE IF err.response # 0
  THEN IF err.response = 403 THEN 403
       ELSE IF err.response = 404 THEN 404
       ELSE IF err.response >= 500 THEN 502
       ELSE err.response
  ELSE IF err.request THEN 504
  ELSE 500

\* the listener without its headersSent guard
ErrorListenerAnswers_Always(headersSent) == TRUE

\* the response.data 'error' listener of lines 237-244: whether it answers
\* with a JSON error (else it destroys the response)
ErrorListenerAnswers(headersSent) == ~headersSent

(***************************************************************************)
(* State.                                                                  *)
(***************************************************************************)
VARIABLES
  now,         \* the clock, in seconds
  mediaStore,  \* the registry
  timers,      \* the pending expiry timers, in the order they were set
  uuids,       \* how many times uuidv4() was called
  inserts,     \* history: every registry insert, in order
  started,     \* requests received so far
  resolving,   \* resolve requests waiting for the adapter
  streaming,   \* stream requests between lookup and completion
  last         \* the request the last step finished, with its answer

vars ==
  <<now, mediaStore, timers, uuids, inserts, started, resolving, streaming,
    last>>

\* the handlers' pure parts, evaluated once for every input of the model
Validations ==
  [q \in UrlInputs |->
     [status |-> ValidationStatus(q), error |-> ValidationError(q)]]

Answers == [o \in AdapterOutcomes |-> Answer(o)]

NoHeaders == [disposition |-> <<>>, type |-> <<>>]

\* the last step finished no request
NoAnswer == [kind |-> "none"]

EmptyStore == [id \in {} |-> NoEntry]

Init ==
  /\ now = 0
  /\ mediaStore = EmptyStore
  /\ timers = <<>>
  /\ uuids = 0
  /\ inserts = <<>>
  /\ started = 0
  /\ resolving = <<>>
  /\ streaming = <<>>
  /\ last = NoAnswer

\* a sequence without its i-th element
Without(s, i) == SubSeq(s, 1, i - 1) \o SubSeq(s, i + 1, Len(s))

(***************************************************************************)
(* GET /api/data, up to the await of the adapter (lines 74-92).            *)
(***************************************************************************)
ResolveStart(q) ==
  /\ started < MaxRequests
  /\ started' = started + 1
  /\ IF Validations[q].status # 0
     THEN /\ last' = [kind |-> "rejected", url |-> q,
                      status |-> Validations[q].status,
                      error |-> Validations[q].error]
          /\ UNCHANGED resolving
     ELSE /\ resolving' = Append(resolving, q)
          /\ last' = NoAnswer
  /\ UNCHANGED <<now, mediaStore, timers, uuids, inserts, streaming>>

\* a timer that fires one clock step after it was set
Due_OneStep(at) == at + TickSeconds

\* when the timer of lines 148-150, set at time at, fires
Due(at) == at + ExpirySeconds

\* the registry after the entries of one request were inserted in order
RECURSIVE InsertAll(_, _, _, _)
InsertAll(store, entries, n, k) ==
  IF k > Len(entries) THEN store
  ELSE InsertAll(Insert(store, MediaId(n, k), entries[k]), entries, n, k + 1)

(***************************************************************************)
(* GET /api/data, from the adapter's answer on (lines 92-175).             *)
(***************************************************************************)
ResolveFinish(i, o) ==
  LET a == Answers[o]
      count == Len(a.loop.entries)
      ids == [k \in 1..count |-> MediaId(uuids, k)]
  IN  /\ i \in 1..Len(resolving)
      /\ uuids + count <= MaxUuids
      /\ resolving' = Without(resolving, i)
      /\ last' = [kind |-> "resolved", outcome |-> o,
                  status |-> a.status, error |-> a.error,
                  media |-> a.loop.media, ids |-> ids]
      /\ mediaStore' = InsertAll(mediaStore, a.loop.entries, uuids, 1)
      /\ timers' = timers \o [k \in 1..count |->
                                [id |-> ids[k], due |-> Due(now)]]
      /\ inserts' = inserts \o [k \in 1..count |->
                                  [id |-> ids[k], entry |-> a.loop.entries[k],
                                   at |-> now]]
      /\ uuids' = uuids + count
      /\ UNCHANGED <<now, started, streaming>>

(***************************************************************************)
(* The expiry callback of lines 148-150, run by the event loop when the    *)
(* oldest timer is due; all timers have the same delay, so they run in     *)
(* the order they were set.                                                *)
(***************************************************************************)
Expire ==
  /\ timers # <<>>
  /\ timers[1].due <= now
  /\ mediaStore' = Remove(mediaStore, timers[1].id)
  /\ timers' = Tail(timers)
  /\ last' = NoAnswer
  /\ UNCHANGED <<now, uuids, inserts, started, resolving, streaming>>

\* time passes; a due timer runs before the clock moves on, and the clock
\* runs on while a timer is pending
Tick ==
  /\ now < MaxSeconds \/ timers # <<>>
  /\ IF timers = <<>> THEN TRUE ELSE timers[1].due > now
  /\ now' = now + TickSeconds
  /\ last' = NoAnswer
  /\ UNCHANGED <<mediaStore, timers, uuids, inserts, started, resolving,
                 streaming>>

(***************************************************************************)
(* GET /api/media/stream/:id.                                              *)
(***************************************************************************)
\* the ids clients ask for: issued UUIDs, a UUID never issued, other names
StreamIds ==
  {Uuid(n) : n \in 0..uuids} \cup {Key("nosuch"), Key("constructor")}

\* history: whether, when the request looks it up, the id was never issued
\* or was issued more than 3600 seconds ago
Stale(id) ==
  \A k \in 1..Len(inserts) :
     inserts[k].id = id => now > inserts[k].at + ExpirySeconds

\* res.status(status).json(...), or the first write of the body: a response
\* is sent
Answered(rec, status) ==
  [rec EXCEPT !.status = status, !.responses = @ + 1, !.headersSent = TRUE]

\* the catch block of lines 262-289 handles err
Caught(rec, err) ==
  IF rec.headersSent THEN [rec EXCEPT !.err = err]
  ELSE [Answered(rec, CatchStatus(err)) EXCEPT !.err = err]

\* the handler and its listeners have nothing left to run for the request
Finish(i, rec) ==
  /\ last' = [rec EXCEPT !.pc = "done"]
  /\ streaming' = Without(streaming, i)

\* err of a setHeader call with an undefined value
HeaderError ==
  [code |-> "ERR_HTTP_INVALID_HEADER_VALUE", response |-> 0, request |-> FALSE]

\* Lines 178-219: the lookup, and the outbound fetch when the lookup is
\* truthy.  For an inherited property the URL handed to axios is undefined:
\* depending on its version axios rejects at once or fetches a URL it
\* resolved against its default base.
StreamStart(id, axiosMode) ==
  LET info == Lookup(mediaStore, id)
      rec == [kind |-> "streamed", id |-> id,
              stale |-> Stale(id), info |-> info,
              url |-> IF info.t = "entry" THEN JStr(info.e.actualUrl)
                      ELSE JUndef,
              pc |-> "fetching", upstream |-> "pending",
              headers |-> NoHeaders, headersSent |-> FALSE, responses |-> 0,
              status |-> 0, err |-> NoError, clientGone |-> FALSE,
              resDestroyed |-> FALSE]
      none == [rec EXCEPT !.upstream = "none"]
  IN  /\ started < MaxRequests
      /\ started' = started + 1
      /\ IF info.t = "undefined"
         THEN /\ last' = [Answered(none, 404) EXCEPT !.pc = "done"]
              /\ UNCHANGED streaming
         ELSE IF info.t = "proto" /\ axiosMode = "rejects"
         THEN /\ last' = [Caught(none, SetupError) EXCEPT !.pc = "done"]
              /\ UNCHANGED streaming
         ELSE /\ streaming' = Append(streaming, rec)
              /\ last' = NoAnswer
      /\ UNCHANGED <<now, mediaStore, timers, uuids, inserts, resolving>>

\* axios rejects without a response: timeout, refused connection, DNS failure
FetchFails(i, code) ==
  /\ i \in 1..Len(streaming)
  /\ streaming[i].pc = "fetching"
  /\ Finish(i, [Caught(streaming[i], NetworkError(code))
                  EXCEPT !.upstream = "failed"])
  /\ UNCHANGED <<now, mediaStore, timers, uuids, inserts, started, resolving>>

\* mediaInfo read again from the registry when the origin has answered
MediaInfo_Reread(rec, store) == Lookup(store, rec.id)

\* mediaInfo after the await: the const of line 181, the object the lookup
\* returned, whatever the registry holds by now
MediaInfo(rec, store) == rec.info

\* the origin answers with a final status: axios rejects what validateStatus
\* refuses, else lines 221-260 set the headers (Content-Length, forwarded
\* when the origin sent one, is left out), add the listeners and pipe
UpstreamAnswers(i, status) ==
  /\ i \in 1..Len(streaming)
  /\ streaming[i].pc = "fetching"
  /\ LET rec == streaming[i]
         mediaInfo == MediaInfo(rec, mediaStore)
     IN  IF ~ValidateStatus(status)
         THEN Finish(i, [Caught(rec, StatusError(status))
                           EXCEPT !.upstream = "failed"])
         ELSE IF mediaInfo.t # "entry"
         THEN Finish(i, [Caught(rec, HeaderError)
                           EXCEPT !.upstream = "unread"])
         ELSE /\ streaming' =
                   [streaming EXCEPT ![i] =
                      [rec EXCEPT !.pc = "piping", !.upstream = "flowing",
                                  !.headers =
                                     [disposition |-> SafeFilename(mediaInfo),
                                      type |-> mediaInfo.e.contentType]]]
              /\ last' = NoAnswer
  /\ UNCHANGED <<now, mediaStore, timers, uuids, inserts, started, resolving>>

\* a chunk of the body reaches the pipe: the first write sends the headers;
\* a write to a destroyed response returns false and the pipe pauses
UpstreamChunk(i) ==
  /\ i \in 1..Len(streaming)
  /\ streaming[i].pc = "piping"
  /\ streaming[i].upstream = "flowing"
  /\ LET rec == streaming[i]
     IN  streaming' =
           [streaming EXCEPT ![i] =
              IF rec.resDestroyed THEN [rec EXCEPT !.upstream = "stalled"]
              ELSE IF rec.headersSent THEN rec
              ELSE Answered(rec, 200)]
  /\ last' = NoAnswer
  /\ UNCHANGED <<now, mediaStore, timers, uuids, inserts, started, resolving>>

\* the body ends: the pipe ends the response
UpstreamEnd(i) ==
  /\ i \in 1..Len(streaming)
  /\ streaming[i].pc = "piping"
  /\ streaming[i].upstream = "flowing"
  /\ LET rec == streaming[i]
         sent == IF rec.resDestroyed \/ rec.headersSent THEN rec
                 ELSE Answered(rec, 200)
     IN  Finish(i, [sent EXCEPT !.upstream = "ended"])
  /\ UNCHANGED <<now, mediaStore, timers, uuids, inserts, started, resolving>>

\* response.data emits 'error' (lines 237-244)
UpstreamError(i) ==
  /\ i \in 1..Len(streaming)
  /\ streaming[i].pc = "piping"
  /\ streaming[i].upstream \in {"flowing", "stalled"}
  /\ LET rec == streaming[i]
         after == IF ErrorListenerAnswers(rec.headersSent)
                  THEN Answered(rec, 502)
                  ELSE [rec EXCEPT !.resDestroyed = TRUE]
     IN  Finish(i, [after EXCEPT !.upstream = "errored"])
  /\ UNCHANGED <<now, mediaStore, timers, uuids, inserts, started, resolving>>

\* The client goes away.  The 'close' listener of lines 252-257 exists only
\* once the handler got past the await; it destroys response.data.
ClientDisconnect(i) ==
  /\ i \in 1..Len(streaming)
  /\ ~streaming[i].clientGone
  /\ LET rec == [streaming[i] EXCEPT !.clientGone = TRUE,
                                     !.resDestroyed = TRUE]
     IN  IF rec.pc = "piping"
         THEN Finish(i, [rec EXCEPT !.upstream = "destroyed"])
         ELSE /\ streaming' = [streaming EXCEPT ![i] = rec]
              /\ last' = NoAnswer
  /\ UNCHANGED <<now, mediaStore, timers, uuids, inserts, started, resolving>>

StreamNext ==
  \/ \E id \in StreamIds, m \in {"rejects", "fetches"} : StreamStart(id, m)
  \/ \E i \in 1..Len(streaming), c \in NetworkErrorCodes : FetchFails(i, c)
  \/ \E i \in 1..Len(streaming), s \in UpstreamStatuses :
       UpstreamAnswers(i, s)
  \/ \E i \in 1..Len(streaming) : UpstreamChunk(i)
  \/ \E i \in 1..Len(streaming) : UpstreamEnd(i)
  \/ \E i \in 1..Len(streaming) : UpstreamError(i)
  \/ \E i \in 1..Len(streaming) : ClientDisconnect(i)

ResolveNext ==
  \/ \E q \in UrlInputs : ResolveStart(q)
  \/ \E i \in 1..Len(resolving), o \in AdapterOutcomes : ResolveFinish(i, o)

Next == ResolveNext \/ StreamNext \/ Expire \/ Tick

Spec == Init /\ [][Next]_vars

\* The event loop runs a due timer callback, and time does not stop.
LiveSpec == Spec /\ WF_vars(Expire) /\ WF_vars(Tick)

(***************************************************************************)
(* Properties.                                                             *)
(***************************************************************************)
Rejected == last.kind = "rejected"
Resolved == last.kind = "resolved"
Streamed == last.kind = "streamed"

\* the host is instagram.com or a subdomain of it
IsInstagramHost(h) ==
  /\ h # <<>>
  /\ h[Len(h)] = "instagram.com"
  /\ Len(h) > 1 => h[Len(h) - 1] = "www."

\* C1: a stream request for an id that was never issued, or whose window of
\* 3600 seconds has passed, is answered 404 and no outbound fetch is made
\* for it.
C1_StaleIdIs404WithoutFetch ==
  /\ \A i \in 1..Len(streaming) : ~streaming[i].stale
  /\ Streamed /\ last.stale => last.status = 404 /\ last.upstream = "none"

\* C2: a resolve request whose url is missing or does not parse is answered
\* 400 (it never waits for the adapter), and a step that answers 400 neither
\* calls the adapter nor changes the registry.
C2_InvalidUrlIs400 ==
  /\ [](\A i \in 1..Len(resolving) :
          Truthy(resolving[i]) /\ URLParses(ToStr(resolving[i])))
  /\ [](Rejected => last.status = 400)
  /\ [](Resolved => last.status # 400)
  /\ [][last'.kind = "rejected" =>
          /\ resolving' = resolving
          /\ mediaStore' = mediaStore
          /\ timers' = timers
          /\ uuids' = uuids]_vars

C2_Witness ==
  /\ Rejected
  /\ last.status = 400
  /\ Truthy(last.url)
  /\ ~URLParses(ToStr(last.url))

\* C3: the adapter is called only with a URL that parses and whose host is
\* instagram.com or a subdomain of it.
C3_AdapterOnlyForInstagramHosts ==
  \A i \in 1..Len(resolving) :
     /\ resolving[i].kind = "string"
     /\ URLParses(resolving[i].s)
     /\ IsInstagramHost(HostOf(resolving[i].s))

\* the adapter's result leaves nothing to answer with: status false, no
\* data, empty data, or only items without a url
NothingUsable(o) ==
  \/ o.isNull
  \/ ~o.status
  \/ ~o.data.defined
  \/ \A k \in 1..Len(o.data.items) :
        ~o.data.items[k].null /\ ~JTruthy(o.data.items[k].url)

\* C4: the resolve handler never answers 200 with an empty media list, and
\* answers 404 whenever the adapter's result has nothing usable.
C4_Never200WithEmptyMedia ==
  /\ Rejected => last.status # 200
  /\ Resolved =>
       /\ last.status = 200 => Len(last.media) >= 1
       /\ ~last.outcome.throws /\ NothingUsable(last.outcome)
            => last.status = 404

C4_Witness ==
  /\ Resolved
  /\ last.status = 404
  /\ last.outcome.status
  /\ last.outcome.data.items # <<>>
  /\ NothingUsable(last.outcome)

\* C5: when the adapter returns no result or one with status false, the
\* answer is 404 with the adapter's msg as error text when it has one (a
\* non-empty msg) and the generic fallback otherwise, and the request
\* inserts no registry entry.
C5_FailureIs404WithMessage ==
  Resolved /\ ~last.outcome.throws
    /\ (last.outcome.isNull \/ ~last.outcome.status) =>
      /\ last.status = 404
      /\ last.ids = <<>>
      /\ last.error =
           IF ~last.outcome.isNull /\ last.outcome.msg.t = "string"
              /\ last.outcome.msg.v # <<>>
           THEN last.outcome.msg.v
           ELSE <<"Failed to process the URL or no media found.">>

C5_Witness ==
  /\ Resolved
  /\ ~last.outcome.isNull
  /\ ~last.outcome.status
  /\ last.outcome.data.defined
  /\ last.outcome.msg = JStr(<<"no media">>)
  /\ last.error = <<"no media">>
  /\ last.status = 404

\* C6: when the outbound fetch fails before any header is sent, the answer
\* is 504 on a timeout or when no upstream response was received, 403 on
\* upstream 403, 404 on upstream 404, 502 on upstream 5xx, and the upstream
\* status itself for any other upstream error status.
C6_UpstreamErrorStatus ==
  Streamed /\ last.upstream = "failed" =>
    /\ last.responses = 1
    /\ last.status =
         IF last.err.code \in {"ECONNABORTED", "ETIMEDOUT"} THEN 504
         ELSE IF last.err.response = 0 THEN 504
         ELSE IF last.err.response = 403 THEN 403
         ELSE IF last.err.response = 404 THEN 404
         ELSE IF last.err.response \in 500..599 THEN 502
         ELSE last.err.response

C6_Witness ==
  /\ Streamed
  /\ last.info.t = "entry"
  /\ last.upstream = "failed"
  /\ last.err.response = 503
  /\ last.status = 502

\* C7: a stream request sends at most one response, and a transport error
\* after the headers were sent only destroys the response.
C7_AtMostOneResponse ==
  /\ \A i \in 1..Len(streaming) : streaming[i].responses <= 1
  /\ Streamed => last.responses <= 1
  /\ Streamed /\ last.upstream = "errored" =>
       /\ last.responses = 1
       /\ last.status \in {200, 502}
       /\ last.status = 200 => last.resDestroyed

C7_Witness ==
  /\ Streamed
  /\ last.upstream = "errored"
  /\ last.status = 200
  /\ last.responses = 1
  /\ last.resDestroyed
  /\ ~last.clientGone

\* C8: when the client of a stream request disconnects while the outbound
\* fetch is in flight, the fetch is cancelled: the request never finishes
\* with its fetch failed, unread, ended or errored instead of destroyed.
C8_DisconnectCancelsFetch ==
  Streamed /\ last.info.t = "entry" /\ last.clientGone =>
    last.upstream = "destroyed"

\* C9: every insert uses a fresh id, no insert overwrites an entry, each id
\* resolves to its own item's origin URL, and an entry is in the registry
\* exactly while its own timer is pending.
C9_FreshIdPerInsert ==
  /\ \A j, k \in 1..Len(inserts) : j # k => inserts[j].id # inserts[k].id
  /\ \A k \in 1..Len(inserts) :
        inserts[k].id \in DOMAIN mediaStore =>
          mediaStore[inserts[k].id] = inserts[k].entry
  /\ DOMAIN mediaStore = {timers[k].id : k \in 1..Len(timers)}
  /\ Len(timers) = Cardinality(DOMAIN mediaStore)
  /\ Resolved =>
       \A k \in 1..Len(last.ids) :
          /\ last.ids[k] \in DOMAIN mediaStore
          /\ last.status = 200 =>
               mediaStore[last.ids[k]].actualUrl = last.media[k].url

C9_Witness ==
  /\ Resolved
  /\ Len(last.ids) = 2
  /\ last.ids[1] # last.ids[2]
  /\ mediaStore[last.ids[1]].actualUrl # mediaStore[last.ids[2]].actualUrl

\* C10: a stream request never changes the registry, every stream request
\* that finds its id sees the entry as it was inserted, and removing an id
\* that is not in the registry changes nothing.
C10_LookupIsPureRead ==
  /\ [][StreamNext =>
          mediaStore' = mediaStore /\ timers' = timers /\ inserts' = inserts]_vars
  /\ [](\A i \in 1..Len(streaming) :
          streaming[i].info.t = "entry" =>
            \E k \in 1..Len(inserts) :
               /\ inserts[k].id = streaming[i].id
               /\ inserts[k].entry = streaming[i].info.e)
  /\ [](\A i, j \in 1..Len(streaming) :
          streaming[i].id = streaming[j].id
            /\ streaming[i].info.t = "entry" /\ streaming[j].info.t = "entry"
            => streaming[i].info = streaming[j].info)
  /\ [](\A id \in StreamIds :
          /\ Remove(Remove(mediaStore, id), id) = Remove(mediaStore, id)
          /\ id \notin DOMAIN mediaStore => Remove(mediaStore, id) = mediaStore)

C10_Witness ==
  \E i, j \in 1..Len(streaming) :
     /\ i # j
     /\ streaming[i].id = streaming[j].id
     /\ streaming[i].info.t = "entry"
     /\ streaming[j].pc = "piping"

(***************************************************************************)
(* The title sanitizer on its own: one title of the adapter, then the      *)
(* postTitle lines 102-105 make of it.                                     *)
(***************************************************************************)
TitleChars == {"a", " ", "/", "-", "!", "."}

\* c repeated n times
Repeat(c, n) == [i \in 1..n |-> c]

\* result.title: absent, every short string over TitleChars, and strings
\* longer than the 50 characters the sanitizer keeps
TitleInputs ==
  {JUndef}
  \cup {JStr(s) : s \in UNION {[1..n -> TitleChars] : n \in 0..MaxShortTitle}}
  \cup {JStr(Repeat("a", MaxTitleLen + 1)),
        JStr(Repeat("!", MaxTitleLen) \o <<"a">>),
        JStr(Repeat(" ", MaxTitleLen) \o <<"a">>),
        JStr(<<"a">> \o Repeat(" ", MaxTitleLen) \o <<"a">>)}

TitleInit ==
  /\ now = 0
  /\ mediaStore = EmptyStore
  /\ timers = <<>>
  /\ uuids = 0
  /\ inserts = <<>>
  /\ started = 0
  /\ resolving = <<>>
  /\ streaming = <<>>
  /\ last \in {[kind |-> "title", title |-> x, pc |-> "input",
                postTitle |-> <<>>] : x \in TitleInputs}

Sanitize ==
  /\ last.kind = "title"
  /\ last.pc = "input"
  /\ last' = [last EXCEPT !.pc = "done",
                          !.postTitle = SanitizeTitle(last.title)]
  /\ UNCHANGED <<now, mediaStore, timers, uuids, inserts, started, resolving,
                 streaming>>

TitleSpec == TitleInit /\ [][Sanitize]_vars

\* a character the sanitized title may contain: a word character, ".", "-"
\* or "_"
Permitted(c) == IsWord(c) \/ c \in {".", "-", "_"}

\* C12: the sanitized title is non-empty, at most 50 characters long, and
\* made of word characters, ".", "-" and "_" only.
C12_TitleOnlyPermittedChars ==
  last.kind = "title" /\ last.pc = "done" =>
    /\ last.postTitle # <<>>
    /\ Len(last.postTitle) <= MaxTitleLen
    /\ \A i \in 1..Len(last.postTitle) : Permitted(last.postTitle[i])

(***************************************************************************)
(* The classifier on its own: one item with a url, then the media type,    *)
(* extension, filename and content type lines 116-157 make of it.          *)
(***************************************************************************)
UrlTokens == {"x/", ".mp4", ".mov", ".jpg", ".jpeg", ".PNG"}
HintWords == {"video", "Video", "photo", "image", "HD"}

\* item.url: truthy, so not empty
ItemUrls == UNION {[1..n -> UrlTokens] : n \in 1..MaxUrlTokens}

\* the hint, given as item.quality or as item.type
ItemHints == UNION {[1..n -> HintWords] : n \in 0..MaxHintWords}

ClassifierItems ==
  {[null |-> FALSE, url |-> JStr(u), quality |-> JStr(h), type |-> JUndef,
    thumbnail |-> JUndef] : u \in ItemUrls, h \in ItemHints}
  \cup
  {[null |-> FALSE, url |-> JStr(u), quality |-> JUndef, type |-> JStr(h),
    thumbnail |-> JUndef] : u \in ItemUrls, h \in ItemHints}

ClassifyInit ==
  /\ now = 0
  /\ mediaStore = EmptyStore
  /\ timers = <<>>
  /\ uuids = 0
  /\ inserts = <<>>
  /\ started = 0
  /\ resolving = <<>>
  /\ streaming = <<>>
  /\ last \in {[kind |-> "item", item |-> x, pc |-> "input",
                mediaType |-> "", extension |-> "", entry |-> NoEntry] :
                  x \in ClassifierItems}

\* one pass of the loop body for an item with a url
ClassifyItem ==
  /\ last.kind = "item"
  /\ last.pc = "input"
  /\ LET c == Classify(last.item.url.v, QualityString(last.item))
     IN  last' = [last EXCEPT
                    !.pc = "done",
                    !.mediaType = MakeResponseItem(last.item).type,
                    !.extension = c.extension,
                    !.entry = MakeEntry(last.item, FallbackTitle)]
  /\ UNCHANGED <<now, mediaStore, timers, uuids, inserts, started, resolving,
                 streaming>>

ClassifySpec == ClassifyInit /\ [][ClassifyItem]_vars

Classified == last.kind = "item" /\ last.pc = "done"

\* the recognized suffixes the URL contains, without the dot
UrlExtensions(url, suffixes) ==
  {ExtOf(LowerWord(url[i])) : i \in SuffixMatches(url, suffixes)}

\* the hint says video; the hint says image
HintSaysVideo(item) == Includes(ToLower(QualityString(item)), <<"video">>)
HintSaysImage(item) ==
  \/ Includes(ToLower(QualityString(item)), <<"photo">>)
  \/ Includes(ToLower(QualityString(item)), <<"image">>)

\* C13: a suffix in the URL takes precedence over a keyword in the hint, and
\* video over image: a video suffix in the URL gives video; else an image
\* suffix gives image; else the hint decides; else the kind is unknown with
\* extension bin.
C13_SuffixBeforeHint ==
  Classified =>
    LET url == last.item.url.v
    IN  IF UrlExtensions(url, VideoSuffixes) # {}
        THEN last.mediaType = "video"
        ELSE IF UrlExtensions(url, ImageSuffixes) # {}
        THEN last.mediaType = "image"
        ELSE IF HintSaysVideo(last.item) THEN last.mediaType = "video"
        ELSE IF HintSaysImage(last.item) THEN last.mediaType = "image"
        ELSE last.mediaType = "unknown" /\ last.extension = "bin"

\* C14: the extension is the suffix matched in the URL: for video one of
\* mp4, mov, avi, mkv that the URL contains, and mp4 when only the hint
\* matched; for image one of jpg, jpeg, png, gif, webp that the URL
\* contains, and jpg when only the hint matched.
C14_ExtensionIsMatchedSuffix ==
  Classified =>
    LET url == last.item.url.v
        video == UrlExtensions(url, VideoSuffixes)
        image == UrlExtensions(url, ImageSuffixes)
    IN  /\ last.mediaType = "video" =>
              IF video # {} THEN last.extension \in video
              ELSE last.extension = "mp4"
        /\ last.mediaType = "image" =>
              IF image # {} THEN last.extension \in image
              ELSE last.extension = "jpg"

\* C20: kind, extension and content type of an entry agree: video has an
\* extension of mp4, mov, avi, mkv and content type video/<extension>; image
\* has one of jpg, jpeg, png, gif, webp and image/<extension>; unknown has
\* bin and image/bin; and the filename ends with "." and the extension.
C20_KindExtensionTypeAgree ==
  Classified =>
    LET f == last.entry.filename
    IN  /\ last.mediaType \in {"video", "image", "unknown"}
        /\ last.mediaType = "video" =>
              /\ last.extension \in {"mp4", "mov", "avi", "mkv"}
              /\ last.entry.contentType = <<"video/", last.extension>>
        /\ last.mediaType = "image" =>
              /\ last.extension \in {"jpg", "jpeg", "png", "gif", "webp"}
              /\ last.entry.contentType = <<"image/", last.extension>>
        /\ last.mediaType = "unknown" =>
              /\ last.extension = "bin"
              /\ last.entry.contentType = <<"image/", "bin">>
        /\ Len(f) >= 2
        /\ f[Len(f) - 1] = "." /\ f[Len(f)] = last.extension

\* an image classified by its hint although the URL names a video format
C20_Witness ==
  /\ Classified
  /\ last.item.url.v = <<"x/", ".mov">>
  /\ HintSaysImage(last.item)
  /\ last.mediaType = "image"
  /\ last.extension = "jpg"
  /\ last.entry.contentType = <<"image/", "jpg">>

\* C15: a fault of the adapter or of the handler is answered 500, and every
\* resolve request ends in exactly one of 200, 400, 404 and 500.
C15_FaultIs500 ==
  /\ Rejected => last.status = 400
  /\ Resolved =>
       /\ last.status \in {200, 404, 500}
       /\ last.outcome.throws => last.status = 500
       /\ (\E k \in 1..Len(last.outcome.data.items) :
             last.outcome.data.items[k].null)
            /\ last.outcome.status => last.status = 500

\* the fields of the media descriptor of a response item
DescriptorFields == {"type", "quality", "url", "thumbnail"}

\* the item has a field besides the descriptor's, to hold the streaming link
CarriesStreamingLink(item) == DOMAIN item \ DescriptorFields # {}

\* C16: every item of a 200 response that carries the origin URL also
\* carries the streaming link built from the item's registry id.
C16_OriginUrlOnlyWithStreamingLink ==
  Resolved /\ last.status = 200 =>
    \A k \in 1..Len(last.media) :
       "url" \in DOMAIN last.media[k] => CarriesStreamingLink(last.media[k])

\* the adapter's items that have a url, in the adapter's order
Usable(items) == SelectSeq(items, LAMBDA it : ~it.null /\ JTruthy(it.url))

\* C17: a 200 response has one media item per adapter item with a url, in
\* the adapter's order, the request inserted as many entries, the k-th
\* holding the k-th usable item's url, and items without a url gave neither.
C17_OneItemPerUsableUrl ==
  Resolved /\ last.status = 200 =>
    LET usable == Usable(last.outcome.data.items)
        n == Len(inserts) - Len(usable)
    IN  /\ Len(last.media) = Len(usable)
        /\ Len(last.ids) = Len(usable)
        /\ n >= 0
        /\ \A k \in 1..Len(usable) :
              /\ last.media[k].url = usable[k].url.v
              /\ inserts[n + k].id = last.ids[k]
              /\ inserts[n + k].at = now
              /\ inserts[n + k].entry.actualUrl = usable[k].url.v
              /\ mediaStore[last.ids[k]].actualUrl = usable[k].url.v
        /\ \A j \in 1..n : inserts[j].id \notin {last.ids[k] : k \in 1..Len(last.ids)}

C17_Witness ==
  /\ Resolved
  /\ last.status = 200
  /\ last.outcome.data.items = <<NoUrlItem, ImageItem>>
  /\ Len(last.media) = 1
  /\ Len(inserts) = 2

\* C18: a resolve request that ends with a non-200 answer leaves the
\* registry as it was before the request.
C18_Non200LeavesRegistry ==
  [][last'.kind \in {"rejected", "resolved"} /\ last'.status # 200 =>
       mediaStore' = mediaStore /\ timers' = timers]_vars

\* C19: a stream request that found its entry keeps the entry it found: it
\* fetches the entry's origin URL and sets the headers from the entry's
\* filename and content type, also when the entry was removed meanwhile.
C19_FoundEntrySurvivesRemoval ==
  LET Holds(rec) ==
        rec.info.t = "entry" =>
          \E k \in 1..Len(inserts) :
             /\ inserts[k].id = rec.id
             /\ rec.info.e = inserts[k].entry
             /\ rec.url = JStr(inserts[k].entry.actualUrl)
             /\ rec.upstream # "unread"
             /\ rec.upstream \in {"flowing", "stalled", "ended", "errored",
                                  "destroyed"} =>
                   /\ rec.headers.disposition =
                        SafeFilename([t |-> "entry", e |-> inserts[k].entry])
                   /\ rec.headers.type = inserts[k].entry.contentType
  IN  /\ \A i \in 1..Len(streaming) : Holds(streaming[i])
      /\ Streamed => Holds(last)
      /\ Streamed /\ ~last.stale /\ last.id.key = "" /\ last.info.t # "entry"
           => last.id \notin DOMAIN mediaStore

\* the entry expired while the fetch was pending, and the body was streamed
\* to its end with the entry's headers
C19_Witness ==
  /\ Streamed
  /\ last.info.t = "entry"
  /\ last.upstream = "ended"
  /\ last.status = 200
  /\ last.headers.type = last.info.e.contentType
  /\ last.id \notin DOMAIN mediaStore
  /\ ~last.stale

\* C11: an inserted entry is in the registry, unchanged, until 3600 seconds
\* after its insertion; it is removed only by its own timer, at that time,
\* whatever stream requests did with it; and it is eventually removed.
C11_EntryLivesOneWindow ==
  /\ [](\A k \in 1..Len(inserts) :
          /\ now < inserts[k].at + ExpirySeconds =>
                /\ inserts[k].id \in DOMAIN mediaStore
                /\ mediaStore[inserts[k].id] = inserts[k].entry
          /\ now > inserts[k].at + ExpirySeconds =>
                inserts[k].id \notin DOMAIN mediaStore)
  /\ [][\A id \in DOMAIN mediaStore :
           id \notin DOMAIN mediaStore' =>
             /\ timers # <<>> /\ timers[1].id = id
             /\ timers' = Tail(timers)
             /\ DOMAIN mediaStore' = DOMAIN mediaStore \ {id}
             /\ \E k \in 1..Len(inserts) :
                   /\ inserts[k].id = id
                   /\ now = inserts[k].at + ExpirySeconds]_vars
  /\ \A n \in 1..MaxUuids :
        [](Uuid(n) \in DOMAIN mediaStore
             => <>(Uuid(n) \notin DOMAIN mediaStore))

\* an entry was streamed and has now been removed by its timer
C11_Witness ==
  /\ Streamed
  /\ last.info.t = "entry"
  /\ last.upstream = "ended"
  /\ last.id \notin DOMAIN mediaStore
  /\ \E k \in 1..Len(inserts) :
        inserts[k].id = last.id /\ now = inserts[k].at + ExpirySeconds

=============================================================================
